---- MODULE Spec2Model ----
(***************************************************************************)
(* GitHub SLA tracker: the downtime computation engine of                  *)
(* src/lib/sla-calculator.ts and the quarter calendar of                   *)
(* src/lib/date-utils.ts.                                                  *)
(*                                                                         *)
(* Engine instants are integers counting clock ticks; TicksPerMinute ticks *)
(* make a minute (the code counts milliseconds, 1000 * 60 to the minute).  *)
(* Impact multipliers are kept in quarters (0.25 is 1, 1.0 is 4), so the   *)
(* weighted downtime is an integer number of quarter-ticks and every       *)
(* product and sum of the code is exact.  uptimePercentage is kept in      *)
(* units of 0.0001 percent (99.9 is 999000), the precision toFixed(4)      *)
(* leaves.  Calendar instants are [day, ms]: days since 1970-01-01 and     *)
(* milliseconds within the day, in UTC.                                    *)
(***************************************************************************)
EXTENDS Integers, Sequences, FiniteSets, TLC

VARIABLES incidents, now, out, archive, disk, scraper

vars == <<incidents, now, out, archive, disk, scraper>>

---------------------------------------------------------------------------
\* Bounds of the model

TicksPerMinute == 2

\* the longest list of incidents one fetch returns
MaxFetched == 2

MaxIncidents == 2

\* m minutes, in ticks
M(m) == m * TicksPerMinute

---------------------------------------------------------------------------
\* Data model: incident records as the content collection supplies them

NoDate == -1

Pages == <<"P", "a", "g", "e", "s">>

AndPages == <<"a", "n", "d", " ">> \o Pages

UpperAndPages == <<"A", "N", "D", " ">> \o Pages

PaddedPages == <<" ", " ">> \o Pages \o <<" ", " ">>

GitOperations == <<"G", "i", "t", " ", "O", "p", "e", "r", "a", "t", "i", "o", "n", "s">>

Webhooks == <<"W", "e", "b", "h", "o", "o", "k", "s">>

Update(status, createdAt) == [status |-> status, created_at |-> createdAt]

\* createMockIncident of the tests: started_at = created_at = updated_at,
\* status resolved exactly when resolved_at is given, no updates
MockIncident(id, createdAt, resolvedAt, impact, componentNames) ==
    [id |-> id,
     status |-> IF resolvedAt # NoDate THEN "resolved" ELSE "investigating",
     impact |-> impact,
     created_at |-> createdAt,
     updated_at |-> createdAt,
     started_at |-> createdAt,
     resolved_at |-> resolvedAt,
     incident_updates |-> <<>>,
     components |-> componentNames]

\* an incident record with every field given
Incident(id, status, impact, createdAt, updatedAt, startedAt, resolvedAt, updates, componentNames) ==
    [id |-> id,
     status |-> status,
     impact |-> impact,
     created_at |-> createdAt,
     updated_at |-> updatedAt,
     started_at |-> startedAt,
     resolved_at |-> resolvedAt,
     incident_updates |-> updates,
     components |-> componentNames]

---------------------------------------------------------------------------
\* Inputs: the windows, the clock values and the incident records drawn on

\* an arbitrary window of exactly 60000 minutes
WinA == [start |-> M(1000), end |-> M(61000)]

\* the window after it, ending one clock unit before its successor would
\* start, as getQuarterEnd makes quarters end
WinB == [start |-> M(61000), end |-> M(121000) - 1]

Windows == {WinA, WinB}

ComponentNames == {GitOperations, Pages}

NowPts == {M(51000), M(61000), M(190600), M(200000)}

IncidentPool ==
    { MockIncident("crit60", M(1060), M(1120), "critical", <<GitOperations>>),
      MockIncident("minor60", M(1060), M(1120), "minor", <<GitOperations>>),
      MockIncident("major60", M(1060), M(1120), "major", <<GitOperations>>),
      MockIncident("major90", M(1060), M(1150), "major", <<GitOperations>>),
      MockIncident("minor120", M(1180), M(1300), "minor", <<GitOperations>>),
      MockIncident("before", M(940), M(1000), "critical", <<GitOperations>>),
      MockIncident("atEnd", M(61000), M(61060), "critical", <<GitOperations>>),
      Incident("lateReport", "resolved", "critical", M(61000), M(61000), M(60990),
               M(61060), <<>>, <<GitOperations>>),
      MockIncident("straddle", M(940), M(1600), "critical", <<GitOperations>>),
      MockIncident("open", M(1060), NoDate, "major", <<GitOperations>>),
      MockIncident("cover", M(940), M(121060), "critical", <<GitOperations, Pages>>),
      MockIncident("backwards", M(1120), M(1060), "critical", <<GitOperations>>),
      MockIncident("none60", M(1060), M(1120), "none", <<GitOperations>>),
      MockIncident("odd60", M(1060), M(1120), "degraded", <<GitOperations>>),
      MockIncident("tick", M(1060), M(1060) + 1, "critical", <<GitOperations>>),
      MockIncident("andPages", M(1060), M(1120), "critical",
                   <<GitOperations, Webhooks, AndPages>>),
      MockIncident("upperAndPages", M(1060), M(1120), "critical", <<UpperAndPages>>),
      MockIncident("paddedPages", M(1060), M(1120), "critical", <<PaddedPages>>),
      Incident("wrongYear", "resolved", "minor", M(1060), M(1060), M(1060),
               M(1120) + M(1576800), <<Update("resolved", M(1120))>>, <<Pages>>),
      Incident("noDate", "resolved", "minor", M(1060), M(1150), NoDate,
               NoDate, <<>>, <<Pages>>),
      Incident("stale", "investigating", "major", M(1090), M(1090), M(1060),
               NoDate, <<Update("investigating", M(1070)), Update("resolved", M(1120)),
                         Update("resolved", M(1150))>>, <<Pages>>),
      Incident("reopened", "resolved", "major", M(1060), M(1150), M(1060),
               NoDate, <<Update("resolved", M(1150)), Update("investigating", M(1130)),
                         Update("resolved", M(1120))>>, <<Pages>>),
      MockIncident("instantHalf", M(31000), M(31000), "critical", <<GitOperations>>),
      MockIncident("instantEarly", M(26030), M(26030), "critical", <<GitOperations>>) }

---------------------------------------------------------------------------
\* Arithmetic helpers

Min2(a, b) == IF a < b THEN a ELSE b

Max2(a, b) == IF a > b THEN a ELSE b

MinOf(S) == CHOOSE x \in S : \A y \in S : x <= y

MaxOf(S) == CHOOSE x \in S : \A y \in S : x >= y

\* Array.from(set).sort((a, b) => a - b)
RECURSIVE SortedPoints(_)
SortedPoints(S) ==
    IF S = {} THEN <<>>
    ELSE LET m == MinOf(S) IN <<m>> \o SortedPoints(S \ {m})

\* <<q, r>> with n * 10^k = q * d + r and 0 <= r < d, by long division
RECURSIVE ScaledDiv(_, _, _)
ScaledDiv(n, d, k) ==
    IF k = 0 THEN <<n \div d, n % d>>
    ELSE LET qr == ScaledDiv(n, d, k - 1)
         IN <<10 * qr[1] + ((10 * qr[2]) \div d), (10 * qr[2]) % d>>

\* parseFloat((num / den * 100).toFixed(4)) in units of 0.0001: the nearest
\* multiple, the larger one on a tie
ToFixed4(num, den) ==
    LET qr == ScaledDiv(num, den, 6)
    IN IF 2 * qr[2] >= den THEN qr[1] + 1 ELSE qr[1]

\* Math.round of a non-negative num / den: floor(x + 0.5)
MathRound(num, den) == (2 * num + den) \div (2 * den)

---------------------------------------------------------------------------
\* sla-calculator.ts

\* the names every object inherits from Object.prototype: multipliers[impact]
\* finds them although the table does not list them
InheritedNames == {"constructor", "toString", "valueOf", "hasOwnProperty", "__proto__"}

\* what the lookup of an inherited name yields: a function or an object, no
\* number and not nullish; as a number it is NaN, which no comparison
\* impact > maxImpact accepts, like this value below every multiplier
NotANumber == -1

\* in quarters: 0.25 is 1, 0.75 is 3, 1.0 is 4, the 0.5 default is 2
getImpactMultiplier(impact) ==
    CASE impact = "none" -> 0
      [] impact = "minor" -> 1
      [] impact = "major" -> 3
      [] impact = "critical" -> 4
      [] impact = "maintenance" -> 0
      [] impact \in InheritedNames -> NotANumber
      [] OTHER -> 2

\* a plausible slip: the most recent resolved update taken, not the first
FindLastResolvedUpdate(updates) ==
    LET hits == {k \in 1..Len(updates) : updates[k].status = "resolved"}
    IN IF hits = {} THEN 0 ELSE MaxOf(hits)

\* incident_updates.find(u => u.status === 'resolved'): the index of the
\* first resolved update, 0 when there is none
FindResolvedUpdate(updates) ==
    LET hits == {k \in 1..Len(updates) : updates[k].status = "resolved"}
    IN IF hits = {} THEN 0 ELSE MinOf(hits)

\* a plausible slip: the updated_at fallback of a resolved incident left out
getIncidentEndTimeNoFallback(incident, t) ==
    IF incident.resolved_at # NoDate THEN incident.resolved_at
    ELSE IF FindResolvedUpdate(incident.incident_updates) # 0
         THEN incident.incident_updates[FindResolvedUpdate(incident.incident_updates)].created_at
    ELSE t

\* t is the value new Date() reads when the incident is still open
getIncidentEndTime(incident, t) ==
    IF incident.resolved_at # NoDate THEN incident.resolved_at
    ELSE IF FindResolvedUpdate(incident.incident_updates) # 0
         THEN incident.incident_updates[FindResolvedUpdate(incident.incident_updates)].created_at
    ELSE IF incident.status = "resolved" THEN incident.updated_at
    ELSE t

\* new Date(incident.data.started_at || incident.data.created_at)
incidentStart(incident) ==
    IF incident.started_at # NoDate THEN incident.started_at ELSE incident.created_at

\* a plausible slip: the lower bound of the range left out
filterIncidentsUpToEnd(incs, startDate, endDate) ==
    {incident \in incs : incident.created_at <= endDate}

filterIncidentsByDateRange(incs, startDate, endDate) ==
    {incident \in incs : incident.created_at >= startDate /\ incident.created_at <= endDate}

\* a plausible slip: the incidents looked at before the future check
hasDataCoverageIncidentsFirst(incs, startDate, endDate, t) ==
    IF filterIncidentsByDateRange(incs, startDate, endDate) # {}
    THEN [hasCoverage |-> TRUE, reason |-> "Has incidents"]
    ELSE IF startDate > t
    THEN [hasCoverage |-> FALSE, reason |-> "Future quarter"]
    ELSE IF endDate >= t - M(90 * 24 * 60)
    THEN [hasCoverage |-> TRUE, reason |-> "Recent quarter with no incidents (100% uptime)"]
    ELSE [hasCoverage |-> FALSE, reason |-> "Historical quarter before tracking began"]

\* t is the value new Date() reads; setDate(getDate() - 90) is 90 days back
hasDataCoverageForQuarter(incs, startDate, endDate, t) ==
    IF startDate > t
    THEN [hasCoverage |-> FALSE, reason |-> "Future quarter"]
    ELSE IF filterIncidentsByDateRange(incs, startDate, endDate) # {}
    THEN [hasCoverage |-> TRUE, reason |-> "Has incidents"]
    ELSE IF endDate >= t - M(90 * 24 * 60)
    THEN [hasCoverage |-> TRUE, reason |-> "Recent quarter with no incidents (100% uptime)"]
    ELSE [hasCoverage |-> FALSE, reason |-> "Historical quarter before tracking began"]

\* a plausible slip: the component filter dropped
affectsAnyComponent(incident, componentName) ==
    Len(incident.components) > 0

\* incident.data.components && incident.data.components.some(c => c.name === componentName)
affectsComponent(incident, componentName) ==
    \E k \in 1..Len(incident.components) : incident.components[k] = componentName

\* a plausible slip: the window taken as closed at both ends
overlapsPeriodClosed(incidentStartTime, incidentEnd, startDate, endDate) ==
    incidentStartTime <= endDate /\ incidentEnd >= startDate

\* incidentStart < endDate && incidentEnd > startDate
overlapsPeriod(incidentStartTime, incidentEnd, startDate, endDate) ==
    incidentStartTime < endDate /\ incidentEnd > startDate

relevantIncidents(incs, componentName, startDate, endDate, t) ==
    {incident \in incs :
        /\ affectsComponent(incident, componentName)
        /\ overlapsPeriod(incidentStart(incident), getIncidentEndTime(incident, t),
                          startDate, endDate)}

\* a plausible slip: the incidents' ends used as breakpoints unclamped
timePointsUnclamped(relevant, startDate, endDate, t) ==
    {startDate, endDate} \cup
    UNION { LET start == incidentStart(inc)
                end == getIncidentEndTime(inc, t)
            IN IF start < end THEN {start, end} ELSE {}
            : inc \in relevant }

\* the breakpoints: the window's ends and each relevant incident's clamped ends
timePoints(relevant, startDate, endDate, t) ==
    {startDate, endDate} \cup
    UNION { LET clampedStart == Max2(incidentStart(inc), startDate)
                clampedEnd == Min2(getIncidentEndTime(inc, t), endDate)
            IN IF clampedStart < clampedEnd THEN {clampedStart, clampedEnd} ELSE {}
            : inc \in relevant }

\* the incidents covering the midpoint (p1 + p2) / 2 of an interval
coveringIncidents(relevant, p1, p2, t) ==
    {inc \in relevant :
        /\ 2 * incidentStart(inc) <= p1 + p2
        /\ 2 * getIncidentEndTime(inc, t) >= p1 + p2}

RECURSIVE SumOfMultipliers(_)
SumOfMultipliers(incs) ==
    IF incs = {} THEN 0
    ELSE LET inc == CHOOSE i \in incs : TRUE
         IN getImpactMultiplier(inc.impact) + SumOfMultipliers(incs \ {inc})

\* a plausible slip: overlapping incidents stack
sumImpact(relevant, p1, p2, t) ==
    SumOfMultipliers(coveringIncidents(relevant, p1, p2, t))

\* the maximum impact over the incidents covering the interval, 0 when none
maxImpact(relevant, p1, p2, t) ==
    MaxOf({0} \cup {getImpactMultiplier(inc.impact) :
                        inc \in coveringIncidents(relevant, p1, p2, t)})

\* the loop over consecutive breakpoints, from index i on: quarter-ticks
RECURSIVE weightedFrom(_, _, _, _)
weightedFrom(sortedPoints, i, relevant, t) ==
    IF i >= Len(sortedPoints) THEN 0
    ELSE (sortedPoints[i + 1] - sortedPoints[i])
            * maxImpact(relevant, sortedPoints[i], sortedPoints[i + 1], t)
         + weightedFrom(sortedPoints, i + 1, relevant, t)

\* Math.round(totalWeightedDowntimeMinutes)
roundDowntimeMinutes(weighted) == MathRound(weighted, 4 * TicksPerMinute)

\* a plausible slip: <= where the policy says <
serviceCreditInclusive(uptimePercentage) ==
    IF uptimePercentage <= 990000 THEN 25
    ELSE IF uptimePercentage <= 999000 THEN 10
    ELSE 0

\* 25 below 99.0, 10 below 99.9, else 0
serviceCreditFor(uptimePercentage) ==
    IF uptimePercentage < 990000 THEN 25
    ELSE IF uptimePercentage < 999000 THEN 10
    ELSE 0

\* slaViolation, set in the same two branches as the credit
slaViolationFor(uptimePercentage) ==
    IF uptimePercentage < 990000 THEN TRUE
    ELSE IF uptimePercentage < 999000 THEN TRUE
    ELSE FALSE

\* totalWeightedDowntimeMinutes, in quarter-ticks.  clock: the values
\* new Date() reads in the coverage check, in the overlap filter, in the
\* breakpoint collection and in the midpoint test
totalWeightedDowntime(incs, componentName, startDate, endDate, clock) ==
    LET relevant == relevantIncidents(incs, componentName, startDate, endDate, clock.filter)
        sortedPoints == SortedPoints(timePoints(relevant, startDate, endDate, clock.points))
    IN weightedFrom(sortedPoints, 1, relevant, clock.mid)

calculateComponentSLA(incs, componentName, startDate, endDate, clock) ==
    LET hasCoverage == hasDataCoverageForQuarter(incs, startDate, endDate, clock.cov).hasCoverage
        relevant == relevantIncidents(incs, componentName, startDate, endDate, clock.filter)
        totalWeighted == totalWeightedDowntime(incs, componentName, startDate, endDate, clock)
        totalQ == 4 * (endDate - startDate)
        effectiveDowntime == Min2(totalWeighted, totalQ)
        uptimePercentage == ToFixed4(totalQ - effectiveDowntime, totalQ)
    IN [componentName |-> componentName,
        uptimePercentage |-> uptimePercentage,
        totalDowntimeMinutes |-> roundDowntimeMinutes(totalWeighted),
        incidentCount |-> Cardinality(relevant),
        slaViolation |-> slaViolationFor(uptimePercentage),
        serviceCredit |-> serviceCreditFor(uptimePercentage),
        hasInsufficientData |-> ~hasCoverage,
        period |-> [start |-> startDate, end |-> endDate]]

---------------------------------------------------------------------------
\* verify_matching.js

IsSpace(c) == c \in {" ", "\t"}

Lower(c) ==
    CASE c = "A" -> "a" [] c = "N" -> "n" [] c = "D" -> "d" [] OTHER -> c

RECURSIVE DropSpaces(_)
DropSpaces(s) ==
    IF s # <<>> /\ IsSpace(Head(s)) THEN DropSpaces(Tail(s)) ELSE s

RECURSIVE DropTrailingSpaces(_)
DropTrailingSpaces(s) ==
    IF s # <<>> /\ IsSpace(s[Len(s)])
    THEN DropTrailingSpaces(SubSeq(s, 1, Len(s) - 1))
    ELSE s

\* name.replace(/^and\s+/i, '')
StripLeadingAnd(s) ==
    IF /\ Len(s) >= 4
       /\ <<Lower(s[1]), Lower(s[2]), Lower(s[3])>> = <<"a", "n", "d">>
       /\ IsSpace(s[4])
    THEN DropSpaces(SubSeq(s, 4, Len(s)))
    ELSE s

\* name.replace(/^and\s+/i, '').trim()
normalizeComponentName(name) ==
    DropTrailingSpaces(DropSpaces(StripLeadingAnd(name)))

---------------------------------------------------------------------------
\* date-utils.ts: the quarter calendar, on the Date constructor's arithmetic

IsLeapYear(y) == (y % 4 = 0 /\ y % 100 # 0) \/ y % 400 = 0

\* the day number of January 1st of year y
DayFromYear(y) ==
    365 * (y - 1970) + ((y - 1969) \div 4) - ((y - 1901) \div 100) + ((y - 1601) \div 400)

\* days of the year before month m (0 is January)
DaysBeforeMonth(m, leap) ==
    LET table == <<0, 31, 59, 90, 120, 151, 181, 212, 243, 273, 304, 334>>
    IN table[m + 1] + (IF leap /\ m >= 2 THEN 1 ELSE 0)

\* a month outside 0..11 carries into the year
MakeDay(year, month, date) ==
    LET ym == year + (month \div 12)
        mn == month % 12
    IN DayFromYear(ym) + DaysBeforeMonth(mn, IsLeapYear(ym)) + date - 1

\* new Date(year, month, date, 0, 0, 0, 0): a year in 0..99 means 1900 + year
NewDate(year, month, date) ==
    LET yr == IF year >= 0 /\ year <= 99 THEN 1900 + year ELSE year
    IN [day |-> MakeDay(yr, month, date), ms |-> 0]

\* new Date(d.getTime() + k)
PlusMs(d, k) ==
    [day |-> d.day + ((d.ms + k) \div 86400000), ms |-> (d.ms + k) % 86400000]

getQuarterStart(year, quarter) == NewDate(year, (quarter - 1) * 3, 1)

getQuarterEnd(year, quarter) == PlusMs(NewDate(year, quarter * 3, 1), -1)

Years == (-2 .. 1) \cup (97 .. 101) \cup (2023 .. 2027)

Quarters == 1 .. 4

---------------------------------------------------------------------------
\* The state machine: the collection grows, the clock advances, and the
\* engine's operations are called one at a time (the engine is synchronous);
\* out is what the call returned, until the caller takes it

NoResult == [op |-> "none"]

\* the cache file: valid while it exists, parses and is younger than
\* CACHE_DURATION; incidents is the list it holds
NoCache == [valid |-> FALSE, incidents |-> <<>>]

\* the fetcher's files before its first run: no cache, no archive
EmptyDisk == [cache |-> NoCache, archiveDamaged |-> FALSE]

\* scrapeHistoryPage's expansion loop is not running
Idle == [pc |-> "idle", hasMoreButtons |-> TRUE, attempts |-> 0, buttons |-> 0]

\* the values a later new Date() of the same evaluation may read
Readings(t) == IF t \in NowPts THEN {t, t + 1} ELSE {t}

ClockChains(t) ==
    {[cov |-> t, filter |-> b, points |-> c, mid |-> d] :
        b \in Readings(t), c \in Readings(t), d \in Readings(t)} \cap
    {ch \in [cov : {t}, filter : Readings(t), points : Readings(t), mid : Readings(t)] :
        ch.filter <= ch.points /\ ch.points <= ch.mid}

Init ==
    /\ incidents = {}
    /\ now \in NowPts
    /\ out = NoResult
    /\ archive = <<>>
    /\ disk = EmptyDisk
    /\ scraper = Idle

\* the content collection gains a record (ids are unique)
AddIncident(incident) ==
    /\ Cardinality(incidents) < MaxIncidents
    /\ \A other \in incidents : other.id # incident.id
    /\ incidents' = incidents \cup {incident}
    /\ out' = NoResult
    /\ UNCHANGED <<now, archive, disk, scraper>>

Tick ==
    /\ \E t \in NowPts : t > now /\ now' = t
    /\ out' = NoResult
    /\ UNCHANGED <<incidents, archive, disk, scraper>>

\* the impact strings getImpactMultiplier is called with
Impacts ==
    {"none", "minor", "major", "critical", "maintenance", "unknown-impact-level",
     "degraded", "", "constructor", "toString"}

GetImpactMultiplier(impact) ==
    /\ out = NoResult
    /\ out' = [op |-> "getImpactMultiplier",
               impact |-> impact,
               value |-> getImpactMultiplier(impact)]
    /\ UNCHANGED <<incidents, now, archive, disk, scraper>>

GetIncidentEndTime(incident) ==
    /\ out = NoResult
    /\ out' = [op |-> "getIncidentEndTime",
               incident |-> incident,
               clock |-> now,
               value |-> getIncidentEndTime(incident, now)]
    /\ UNCHANGED <<incidents, now, archive, disk, scraper>>

HasDataCoverageForQuarter(window) ==
    /\ out = NoResult
    /\ out' = [op |-> "hasDataCoverageForQuarter",
               startDate |-> window.start,
               endDate |-> window.end,
               clock |-> now,
               value |-> hasDataCoverageForQuarter(incidents, window.start, window.end, now)]
    /\ UNCHANGED <<incidents, now, archive, disk, scraper>>

\* relevant and totalWeighted are the call's local values of those names
CalculateComponentSLA(componentName, window, clock) ==
    /\ out = NoResult
    /\ out' = [op |-> "calculateComponentSLA",
               componentName |-> componentName,
               startDate |-> window.start,
               endDate |-> window.end,
               clock |-> clock,
               relevant |-> relevantIncidents(incidents, componentName,
                                              window.start, window.end, clock.filter),
               totalWeighted |-> totalWeightedDowntime(incidents, componentName,
                                                       window.start, window.end, clock),
               value |-> calculateComponentSLA(incidents, componentName,
                                               window.start, window.end, clock)]
    /\ now' = clock.mid
    /\ UNCHANGED <<incidents, archive, disk, scraper>>

\* the caller takes the returned value
Return ==
    /\ out # NoResult
    /\ out' = NoResult
    /\ UNCHANGED <<incidents, now, archive, disk, scraper>>

Next ==
    \/ \E incident \in IncidentPool : AddIncident(incident)
    \/ Tick
    \/ Return
    \/ \E impact \in Impacts : GetImpactMultiplier(impact)
    \/ \E incident \in incidents : GetIncidentEndTime(incident)
    \/ \E window \in Windows : HasDataCoverageForQuarter(window)
    \/ \E componentName \in ComponentNames, window \in Windows, clock \in ClockChains(now) :
          CalculateComponentSLA(componentName, window, clock)

Spec == Init /\ [][Next]_vars

\* The calendar on its own: the quarter boundaries of a year and quarter

GetQuarterStart(year, quarter) ==
    /\ out = NoResult
    /\ out' = [op |-> "getQuarterStart", year |-> year, quarter |-> quarter,
               value |-> getQuarterStart(year, quarter)]
    /\ UNCHANGED <<incidents, now, archive, disk, scraper>>

GetQuarterEnd(year, quarter) ==
    /\ out = NoResult
    /\ out' = [op |-> "getQuarterEnd", year |-> year, quarter |-> quarter,
               value |-> getQuarterEnd(year, quarter)]
    /\ UNCHANGED <<incidents, now, archive, disk, scraper>>

NextCalendar ==
    \/ Return
    \/ \E year \in Years, quarter \in Quarters : GetQuarterStart(year, quarter)
    \/ \E year \in Years, quarter \in Quarters : GetQuarterEnd(year, quarter)

SpecCalendar == Init /\ [][NextCalendar]_vars

---------------------------------------------------------------------------
\* sla-calculator.ts: the aggregators, on the quarters of the calendar

ApiRequests == <<"A", "P", "I", " ", "R", "e", "q", "u", "e", "s", "t", "s">>

Issues == <<"I", "s", "s", "u", "e", "s">>

PullRequests == <<"P", "u", "l", "l", " ", "R", "e", "q", "u", "e", "s", "t", "s">>

Actions == <<"A", "c", "t", "i", "o", "n", "s">>

Packages == <<"P", "a", "c", "k", "a", "g", "e", "s">>

\* a component of the status page that the SLA does not list
Codespaces == <<"C", "o", "d", "e", "s", "p", "a", "c", "e", "s">>

GITHUB_SLA_COMPONENTS ==
    <<GitOperations, ApiRequests, Issues, PullRequests, Webhooks, Pages, Actions, Packages>>

\* the instant the engine's clock counts its ticks from
TickOrigin == NewDate(2024, 0, 1)

\* date.getTime(), in ticks since TickOrigin: the last millisecond of a
\* quarter falls in the last tick before the next quarter starts
ToTicks(d) ==
    (d.day - TickOrigin.day) * M(24 * 60) + (d.ms * TicksPerMinute) \div 60000

\* new Date('YYYY-MM-DDT00:00:00Z') plus a number of minutes
Instant(year, month, date, minutes) ==
    ToTicks(NewDate(year, month - 1, date)) + M(minutes)

QuarterIds == {<<2025, 1>>, <<2025, 2>>}

\* 2025-02-20 and 2025-08-01
QuarterNowPts == {Instant(2025, 2, 20, 0), Instant(2025, 8, 1, 0)}

QuarterPool ==
    { MockIncident("git-1", Instant(2025, 2, 15, 600), Instant(2025, 2, 15, 660),
                   "critical", <<GitOperations>>),
      MockIncident("api-1", Instant(2025, 2, 20, 840), Instant(2025, 2, 20, 930),
                   "major", <<ApiRequests>>),
      MockIncident("1", Instant(2025, 2, 15, 600), Instant(2025, 2, 15, 660),
                   "critical", <<GitOperations, ApiRequests>>),
      MockIncident("2", Instant(2025, 3, 10, 480), Instant(2025, 3, 10, 540),
                   "minor", <<Issues>>),
      MockIncident("q2-1", Instant(2025, 4, 10, 600), Instant(2025, 4, 10, 660),
                   "major", <<GitOperations>>),
      MockIncident("untracked", Instant(2025, 2, 15, 600), Instant(2025, 2, 15, 660),
                   "critical", <<Codespaces>>),
      MockIncident("atQuarterEnd", ToTicks(getQuarterEnd(2025, 1)),
                   Instant(2025, 4, 1, 60), "minor", <<Pages>>),
      MockIncident("open", Instant(2025, 2, 10, 0), NoDate, "major", <<Webhooks>>),
      MockIncident("carried", Instant(2024, 12, 31, 1380), Instant(2025, 1, 1, 120),
                   "critical", <<Actions>>),
      MockIncident("long", Instant(2025, 2, 1, 0), Instant(2025, 2, 1, 1037),
                   "critical", <<PullRequests>>) }

\* a plausible slip: an incident counted once however many components it
\* affects, the largest of the per-component values taken for the total
MaxField(results, field) ==
    MaxOf({0} \cup {results[k][field] : k \in 1..Len(results)})

\* r[field] summed over the results: reduce((sum, r) => sum + r.field, 0)
RECURSIVE SumField(_, _)
SumField(results, field) ==
    IF results = <<>> THEN 0
    ELSE Head(results)[field] + SumField(Tail(results), field)

calculateQuarterlySLA(incs, year, quarter, componentNames, clocks) ==
    LET startDate == ToTicks(getQuarterStart(year, quarter))
        endDate == ToTicks(getQuarterEnd(year, quarter))
    IN [k \in 1..Len(componentNames) |->
           calculateComponentSLA(incs, componentNames[k], startDate, endDate, clocks[k])]

\* a plausible slip: the mean weighted by the components' incident counts
\* (the plain mean when there is no incident at all)
averageUptimeByIncidents(componentSLAs) ==
    LET weights == SumField(componentSLAs, "incidentCount")
        RECURSIVE Weighted(_)
        Weighted(results) ==
            IF results = <<>> THEN 0
            ELSE Head(results).uptimePercentage * Head(results).incidentCount
                 + Weighted(Tail(results))
    IN IF weights = 0
       THEN [num |-> SumField(componentSLAs, "uptimePercentage"),
             den |-> Len(componentSLAs)]
       ELSE [num |-> Weighted(componentSLAs), den |-> weights]

\* avgUptime, the sum over the length: kept as a fraction, in units of 0.0001
averageUptime(componentSLAs) ==
    [num |-> SumField(componentSLAs, "uptimePercentage"), den |-> Len(componentSLAs)]

calculateOverallSLA(incs, startDate, endDate, componentNames, clocks) ==
    LET componentSLAs == [k \in 1..Len(componentNames) |->
                             calculateComponentSLA(incs, componentNames[k],
                                                   startDate, endDate, clocks[k])]
        avgUptime == averageUptime(componentSLAs)
        totalDowntime == SumField(componentSLAs, "totalDowntimeMinutes")
        totalIncidents == SumField(componentSLAs, "incidentCount")
    IN [componentName |-> "All Components",
        uptimePercentage |-> MathRound(avgUptime.num, avgUptime.den),
        totalDowntimeMinutes |-> totalDowntime,
        incidentCount |-> totalIncidents,
        slaViolation |-> avgUptime.num < 999000 * avgUptime.den,
        serviceCredit |-> IF avgUptime.num < 990000 * avgUptime.den THEN 25
                          ELSE IF avgUptime.num < 999000 * avgUptime.den THEN 10
                          ELSE 0,
        hasInsufficientData |-> \E k \in 1..Len(componentSLAs) :
                                   componentSLAs[k].hasInsufficientData,
        period |-> [start |-> startDate, end |-> endDate]]

\* a plausible slip: any component at all taken for a tracked one
affectsSomeComponent(incident) == Len(incident.components) > 0

\* components.some(c => GITHUB_SLA_COMPONENTS.includes(c.name))
affectsTrackedComponent(incident) ==
    \E k \in 1..Len(incident.components), j \in 1..Len(GITHUB_SLA_COMPONENTS) :
        incident.components[k] = GITHUB_SLA_COMPONENTS[j]

\* a plausible slip: <= for <, the last of the tied results taken
RECURSIVE worstFromLast(_, _, _)
worstFromLast(worst, slaResults, k) ==
    IF k > Len(slaResults) THEN worst
    ELSE worstFromLast(IF slaResults[k].uptimePercentage <= worst.uptimePercentage
                       THEN slaResults[k] ELSE worst,
                       slaResults, k + 1)

\* slaResults.reduce((worst, curr) => curr.uptimePercentage < worst.uptimePercentage
\* ? curr : worst), from the first result on
RECURSIVE worstFrom(_, _, _)
worstFrom(worst, slaResults, k) ==
    IF k > Len(slaResults) THEN worst
    ELSE worstFrom(IF slaResults[k].uptimePercentage < worst.uptimePercentage
                   THEN slaResults[k] ELSE worst,
                   slaResults, k + 1)

calculateQuarterData(incs, year, quarter, clocks) ==
    LET startDate == ToTicks(getQuarterStart(year, quarter))
        endDate == ToTicks(getQuarterEnd(year, quarter))
        quarterIncidents == filterIncidentsByDateRange(incs, startDate, endDate)
        slaResults == calculateQuarterlySLA(incs, year, quarter, GITHUB_SLA_COMPONENTS, clocks)
    IN [year |-> year,
        quarter |-> quarter,
        quarterLabel |-> ToString(year) \o "-Q" \o ToString(quarter),
        startDate |-> startDate,
        endDate |-> endDate,
        slaResults |-> slaResults,
        avgUptime |-> averageUptime(slaResults),
        totalDowntime |-> SumField(slaResults, "totalDowntimeMinutes"),
        totalIncidents |-> Cardinality(quarterIncidents),
        trackedIncidents |->
            Cardinality({incident \in quarterIncidents : affectsTrackedComponent(incident)}),
        hasViolation |-> \E k \in 1..Len(slaResults) : slaResults[k].slaViolation,
        hasInsufficientData |-> \E k \in 1..Len(slaResults) :
                                   slaResults[k].hasInsufficientData,
        worstComponent |-> worstFrom(slaResults[1], slaResults, 2),
        quarterIncidents |-> quarterIncidents]

\* The clock over a run of n component evaluations, each reading new Date()
\* in its coverage check, overlap filter, breakpoint collection and midpoint
\* test: the first s readings give t, the later ones the next tick
ClockRun(t, n, s) ==
    LET Reading(j) == IF j <= s THEN t ELSE t + 1
    IN [k \in 1..n |-> [cov |-> Reading(4 * k - 3), filter |-> Reading(4 * k - 2),
                        points |-> Reading(4 * k - 1), mid |-> Reading(4 * k)]]

ClockRuns(t, n) ==
    {ClockRun(t, n, s) : s \in IF t \in QuarterNowPts THEN 1..(4 * n) ELSE {4 * n}}

InitQuarter ==
    /\ incidents = {}
    /\ now \in QuarterNowPts
    /\ out = NoResult
    /\ archive = <<>>
    /\ disk = EmptyDisk
    /\ scraper = Idle

\* time passes between two builds of the site
Advance ==
    /\ \E t \in QuarterNowPts : t > now /\ now' = t
    /\ out' = NoResult
    /\ UNCHANGED <<incidents, archive, disk, scraper>>

CalculateQuarterlySLA(year, quarter, componentNames, clocks) ==
    /\ out = NoResult
    /\ out' = [op |-> "calculateQuarterlySLA",
               year |-> year,
               quarter |-> quarter,
               componentNames |-> componentNames,
               startDate |-> ToTicks(getQuarterStart(year, quarter)),
               endDate |-> ToTicks(getQuarterEnd(year, quarter)),
               clocks |-> clocks,
               value |-> calculateQuarterlySLA(incidents, year, quarter,
                                               componentNames, clocks)]
    /\ now' = clocks[Len(componentNames)].mid
    /\ UNCHANGED <<incidents, archive, disk, scraper>>

\* componentSLAs is the call's local value of that name
CalculateOverallSLA(window, componentNames, clocks) ==
    /\ out = NoResult
    /\ out' = [op |-> "calculateOverallSLA",
               startDate |-> window.start,
               endDate |-> window.end,
               componentNames |-> componentNames,
               clocks |-> clocks,
               componentSLAs |-> [k \in 1..Len(componentNames) |->
                                     calculateComponentSLA(incidents, componentNames[k],
                                                           window.start, window.end,
                                                           clocks[k])],
               value |-> calculateOverallSLA(incidents, window.start, window.end,
                                             componentNames, clocks)]
    /\ now' = clocks[Len(componentNames)].mid
    /\ UNCHANGED <<incidents, archive, disk, scraper>>

CalculateQuarterData(year, quarter, clocks) ==
    /\ out = NoResult
    /\ out' = [op |-> "calculateQuarterData",
               year |-> year,
               quarter |-> quarter,
               clocks |-> clocks,
               value |-> calculateQuarterData(incidents, year, quarter, clocks)]
    /\ now' = clocks[Len(GITHUB_SLA_COMPONENTS)].mid
    /\ UNCHANGED <<incidents, archive, disk, scraper>>

\* the window of a quarter, as the pages pass it to calculateOverallSLA
QuarterWindow(id) ==
    [start |-> ToTicks(getQuarterStart(id[1], id[2])),
     end |-> ToTicks(getQuarterEnd(id[1], id[2]))]

NextQuarterly ==
    \/ \E incident \in QuarterPool : AddIncident(incident)
    \/ Advance
    \/ Return
    \/ \E id \in QuarterIds, clocks \in ClockRuns(now, Len(GITHUB_SLA_COMPONENTS)) :
          CalculateQuarterlySLA(id[1], id[2], GITHUB_SLA_COMPONENTS, clocks)
    \/ \E id \in QuarterIds, clocks \in ClockRuns(now, Len(GITHUB_SLA_COMPONENTS)) :
          CalculateOverallSLA(QuarterWindow(id), GITHUB_SLA_COMPONENTS, clocks)
    \/ \E id \in QuarterIds, clocks \in ClockRuns(now, Len(GITHUB_SLA_COMPONENTS)) :
          CalculateQuarterData(id[1], id[2], clocks)

SpecQuarter == InitQuarter /\ [][NextQuarterly]_vars

---------------------------------------------------------------------------
\* fetch-github-data.js: the archive file and the merge of a fetched list

\* one version of an incident as the status API serves it
Version(id, createdAt, updatedAt, status) ==
    [id |-> id, created_at |-> createdAt, updated_at |-> updatedAt, status |-> status]

\* the versions the API may serve: b and c were created at the same instant
FetchPool ==
    {Version("a", 30, u, st) : u \in {30, 31}, st \in {"investigating", "resolved"}} \cup
    {Version("b", 20, u, st) : u \in {20, 21}, st \in {"investigating", "resolved"}} \cup
    {Version("c", 20, u, "resolved") : u \in {20, 21}}

\* the lists of at most n versions
RECURSIVE FetchedLists(_)
FetchedLists(n) ==
    IF n = 0 THEN {<<>>}
    ELSE FetchedLists(n - 1) \cup
         {Append(list, v) : list \in {l \in FetchedLists(n - 1) : Len(l) = n - 1},
                            v \in FetchPool}

\* uniqueMap.has(id): the position of the id among the map's entries, 0
\* when it has none (a Map keeps its entries in insertion order)
MapIndex(uniqueMap, id) ==
    LET hits == {k \in 1..Len(uniqueMap) : uniqueMap[k].id = id}
    IN IF hits = {} THEN 0 ELSE MinOf(hits)

\* uniqueMap.set(incident.id, incident): a new key goes last, a known key
\* keeps its place and takes the new value
MapSet(uniqueMap, incident) ==
    IF MapIndex(uniqueMap, incident.id) = 0 THEN Append(uniqueMap, incident)
    ELSE [uniqueMap EXCEPT ![MapIndex(uniqueMap, incident.id)] = incident]

\* existingArchive.forEach(incident => uniqueMap.set(incident.id, incident))
RECURSIVE BaselineMap(_, _)
BaselineMap(uniqueMap, existingArchive) ==
    IF existingArchive = <<>> THEN uniqueMap
    ELSE BaselineMap(MapSet(uniqueMap, Head(existingArchive)), Tail(existingArchive))

\* a plausible slip: >= for >, a fetched version replacing its equal
isUpdateOrSame(incident, existing) == incident.updated_at >= existing.updated_at

\* new Date(incident.updated_at) > new Date(existing.updated_at)
isUpdate(incident, existing) == incident.updated_at > existing.updated_at

\* newIncidents.forEach: an unknown id is added; a known one is replaced
\* only by a version whose updated_at is strictly later
RECURSIVE ProcessNew(_, _)
ProcessNew(acc, newIncidents) ==
    IF newIncidents = <<>> THEN acc
    ELSE LET incident == Head(newIncidents)
             k == MapIndex(acc.uniqueMap, incident.id)
         IN IF k = 0
            THEN ProcessNew([uniqueMap |-> MapSet(acc.uniqueMap, incident),
                             addedCount |-> acc.addedCount + 1,
                             updatedCount |-> acc.updatedCount], Tail(newIncidents))
            ELSE IF isUpdate(incident, acc.uniqueMap[k])
            THEN ProcessNew([uniqueMap |-> MapSet(acc.uniqueMap, incident),
                             addedCount |-> acc.addedCount,
                             updatedCount |-> acc.updatedCount + 1], Tail(newIncidents))
            ELSE ProcessNew(acc, Tail(newIncidents))

\* the place a stable sort by created_at, newest first, gives one more entry
InsertNewestFirst(sorted, incident) ==
    LET before == {k \in 1..Len(sorted) : sorted[k].created_at >= incident.created_at}
        n == IF before = {} THEN 0 ELSE MaxOf(before)
    IN SubSeq(sorted, 1, n) \o <<incident>> \o SubSeq(sorted, n + 1, Len(sorted))

\* merged.sort((a, b) => new Date(b.created_at) - new Date(a.created_at))
RECURSIVE SortNewestFirst(_, _)
SortNewestFirst(sorted, entries) ==
    IF entries = <<>> THEN sorted
    ELSE SortNewestFirst(InsertNewestFirst(sorted, Head(entries)), Tail(entries))

mergeIncidents(newIncidents, existingArchive) ==
    LET acc == ProcessNew([uniqueMap |-> BaselineMap(<<>>, existingArchive),
                           addedCount |-> 0, updatedCount |-> 0], newIncidents)
    IN [merged |-> SortNewestFirst(<<>>, acc.uniqueMap),
        addedCount |-> acc.addedCount,
        updatedCount |-> acc.updatedCount]

\* main: load the archive (empty when the file is missing), merge the
\* incidents of the fetched or cached data, save the merged list
FetchAndMerge(newIncidents) ==
    /\ out = NoResult
    /\ out' = [op |-> "mergeIncidents",
               newIncidents |-> newIncidents,
               existingArchive |-> archive,
               value |-> mergeIncidents(newIncidents, archive)]
    /\ archive' = mergeIncidents(newIncidents, archive).merged
    /\ UNCHANGED <<incidents, now, disk, scraper>>

InitFetch ==
    /\ incidents = {}
    /\ now = MinOf(NowPts)
    /\ out = NoResult
    /\ archive = <<>>
    /\ disk = EmptyDisk
    /\ scraper = Idle

NextFetch ==
    \/ Return
    \/ \E newIncidents \in FetchedLists(MaxFetched) : FetchAndMerge(newIncidents)

SpecFetch == InitFetch /\ [][NextFetch]_vars

-----------------------------------------------------------------------------
(* The fetcher's main with its files: the cache, the archive that may have *)
(* been damaged between two runs, and the components file.                 *)

CACHE_FILE == "github-data.json"

ARCHIVE_FILE == "incidents-archive.json"

COMPONENTS_FILE == "components.json"

\* the longest incident list the API serves in the runs with files
MaxServed == 1

\* fetchFreshData: the incidents of the response, or a failure (no network,
\* HTTP status not ok)
Responses ==
    {[ok |-> TRUE, incidents |-> list] : list \in FetchedLists(MaxServed)} \cup
    {[ok |-> FALSE, incidents |-> <<>>]}

\* a plausible slip: a file that does not parse taken for an empty archive
loadExistingArchiveOrEmpty(file, damaged) ==
    IF damaged THEN [ok |-> TRUE, value |-> <<>>] ELSE [ok |-> TRUE, value |-> file]

\* the parsed file (the empty list when it is missing), or the thrown
\* 'Critical: Failed to parse existing archive'
loadExistingArchive(file, damaged) ==
    IF damaged THEN [ok |-> FALSE, value |-> <<>>] ELSE [ok |-> TRUE, value |-> file]

\* one run of main
Main(response) ==
    /\ out = NoResult
    /\ LET useCache == disk.cache.valid
           source == IF useCache THEN "cache" ELSE "fresh"
           data == IF useCache THEN disk.cache.incidents ELSE response.incidents
           saved == IF useCache THEN disk.cache ELSE [valid |-> TRUE, incidents |-> data]
           cacheWritten == IF useCache THEN {} ELSE {CACHE_FILE}
           loaded == loadExistingArchive(archive, disk.archiveDamaged)
           result == mergeIncidents(data, loaded.value)
       IN IF ~useCache /\ ~response.ok
          THEN /\ out' = [op |-> "main", source |-> source, exitCode |-> 1,
                          written |-> {}, damaged |-> disk.archiveDamaged,
                          existingArchive |-> archive]
               /\ UNCHANGED <<archive, disk>>
          ELSE IF ~loaded.ok
          THEN /\ out' = [op |-> "main", source |-> source, exitCode |-> 1,
                          written |-> cacheWritten, damaged |-> disk.archiveDamaged,
                          existingArchive |-> archive]
               /\ disk' = [disk EXCEPT !.cache = saved]
               /\ UNCHANGED archive
          ELSE /\ out' = [op |-> "main", source |-> source, exitCode |-> 0,
                          written |-> cacheWritten \cup {ARCHIVE_FILE, COMPONENTS_FILE},
                          damaged |-> disk.archiveDamaged,
                          existingArchive |-> archive]
               /\ disk' = [cache |-> saved, archiveDamaged |-> FALSE]
               /\ archive' = result.merged
    /\ UNCHANGED <<incidents, now, scraper>>

\* between two runs the archive file is damaged (a truncated write, a merge
\* conflict left in it): what it holds no longer parses
DamageArchive ==
    /\ out = NoResult
    /\ archive # <<>>
    /\ ~disk.archiveDamaged
    /\ disk' = [disk EXCEPT !.archiveDamaged = TRUE]
    /\ UNCHANGED <<incidents, now, out, archive, scraper>>

\* the cache grows older than CACHE_DURATION or is removed
ExpireCache ==
    /\ out = NoResult
    /\ disk.cache.valid
    /\ disk' = [disk EXCEPT !.cache = NoCache]
    /\ UNCHANGED <<incidents, now, out, archive, scraper>>

NextMain ==
    \/ Return
    \/ \E response \in Responses : Main(response)
    \/ DamageArchive
    \/ ExpireCache

SpecMain == InitFetch /\ [][NextMain]_vars

-----------------------------------------------------------------------------
(* scrapeHistoryPage's loop that clicks the 'Show All X Incidents' buttons *)

MAX_ATTEMPTS == 50

\* the most buttons the history page shows
MaxButtons == 2

\* the loop condition
WhileTest ==
    /\ scraper.pc = "while"
    /\ scraper' = [scraper EXCEPT !.pc = IF scraper.hasMoreButtons
                                            /\ scraper.attempts < MAX_ATTEMPTS
                                         THEN "query" ELSE "done"]
    /\ UNCHANGED <<incidents, now, out, archive, disk>>

\* button.count() > 0 && button.isVisible(), and the else branch
QueryButton ==
    /\ scraper.pc = "query"
    /\ scraper' = IF scraper.buttons > 0
                  THEN [scraper EXCEPT !.pc = "click"]
                  ELSE [scraper EXCEPT !.pc = "while", !.hasMoreButtons = FALSE]
    /\ UNCHANGED <<incidents, now, out, archive, disk>>

\* scrollIntoViewIfNeeded and click succeed: the list expands and its button
\* goes, or the page keeps it; then attempts++
ClickSucceeds(gone) ==
    /\ scraper.pc = "click"
    /\ scraper' = [scraper EXCEPT !.pc = "while",
                                  !.attempts = scraper.attempts + 1,
                                  !.buttons = scraper.buttons - gone]
    /\ UNCHANGED <<incidents, now, out, archive, disk>>

\* scrollIntoViewIfNeeded or click throws: control passes to the catch
ClickThrows ==
    /\ scraper.pc = "click"
    /\ scraper' = [scraper EXCEPT !.pc = "catch"]
    /\ UNCHANGED <<incidents, now, out, archive, disk>>

\* the catch block: a warning, a wait, and back to the loop condition
CatchAndRetry ==
    /\ scraper.pc = "catch"
    /\ scraper' = [scraper EXCEPT !.pc = "while"]
    /\ UNCHANGED <<incidents, now, out, archive, disk>>

\* the page is loaded and the loop's variables are declared
InitScrape ==
    /\ incidents = {}
    /\ now = MinOf(NowPts)
    /\ out = NoResult
    /\ archive = <<>>
    /\ disk = EmptyDisk
    /\ scraper \in {[pc |-> "while", hasMoreButtons |-> TRUE, attempts |-> 0,
                     buttons |-> b] : b \in 0..MaxButtons}

NextScrape ==
    \/ WhileTest
    \/ QueryButton
    \/ \E gone \in {0, 1} : ClickSucceeds(gone)
    \/ ClickThrows
    \/ CatchAndRetry

\* the event loop resumes the function after every await
SpecScrape == InitScrape /\ [][NextScrape]_vars /\ WF_vars(NextScrape)

---------------------------------------------------------------------------
\* Properties

Called == out.op = "calculateComponentSLA"

\* the start and the end of an incident as the call that returned out saw them
StartOf(inc) == IF inc.started_at = NoDate THEN inc.created_at ELSE inc.started_at

EndOf(inc) == getIncidentEndTime(inc, out.clock.mid)

NamesOf(inc) == {inc.components[k] : k \in 1..Len(inc.components)}

ResolvedUpdates(inc) ==
    {k \in 1..Len(inc.incident_updates) : inc.incident_updates[k].status = "resolved"}

Ids(incs) == {inc.id : inc \in incs}

\* C1: getIncidentEndTime of an incident that has both a top-level
\* resolved_at and a resolved update returns that update's created_at, not
\* the resolved_at.
C1_ResolvedUpdateWins ==
    (/\ out.op = "getIncidentEndTime"
     /\ out.incident.resolved_at # NoDate
     /\ ResolvedUpdates(out.incident) # {})
    => \E k \in ResolvedUpdates(out.incident) :
          out.value = out.incident.incident_updates[k].created_at

\* C2: calculateComponentSLA counts for a component every incident that
\* overlaps the window and has a component name that normalizes to the
\* component's name ("and Pages", "AND Pages", "  Pages  " for "Pages").
C2_NormalizedNameSelected ==
    Called =>
        \A inc \in incidents :
            (/\ \E name \in NamesOf(inc) : normalizeComponentName(name) = out.componentName
             /\ StartOf(inc) < out.endDate
             /\ getIncidentEndTime(inc, out.clock.filter) > out.startDate)
            => inc \in out.relevant

\* The instants of the window at which some incident of the collection
\* starts or ends, with the window's two ends
Clip(x) == Max2(out.startDate, Min2(x, out.endDate))

Instants ==
    {out.startDate, out.endDate} \cup
    {Clip(StartOf(inc)) : inc \in incidents} \cup {Clip(EndOf(inc)) : inc \in incidents}

\* the sub-intervals between neighbouring instants
Cells ==
    {cell \in Instants \X Instants :
        /\ cell[1] < cell[2]
        /\ ~ \E x \in Instants : cell[1] < x /\ x < cell[2]}

\* the selected incidents whose interval contains the sub-interval
Covering(cell) ==
    {inc \in out.relevant : StartOf(inc) <= cell[1] /\ EndOf(inc) >= cell[2]}

CellMax(cell) ==
    IF Covering(cell) = {} THEN 0
    ELSE CHOOSE m \in {getImpactMultiplier(inc.impact) : inc \in Covering(cell)} :
            \A inc \in Covering(cell) : getImpactMultiplier(inc.impact) <= m

RECURSIVE SumCells(_)
SumCells(cells) ==
    IF cells = {} THEN 0
    ELSE LET cell == CHOOSE c \in cells : TRUE
         IN (cell[2] - cell[1]) * CellMax(cell) + SumCells(cells \ {cell})

\* every selected incident had one and the same end throughout the call
\* (an open incident ends at the clock's reading, which may advance)
EndsSettled ==
    \A inc \in out.relevant :
        /\ getIncidentEndTime(inc, out.clock.filter) = EndOf(inc)
        /\ getIncidentEndTime(inc, out.clock.points) = EndOf(inc)

\* every selected incident ends after it starts
PositiveLengths == \A inc \in out.relevant : StartOf(inc) < EndOf(inc)

C4_VerdictFromReturnedUptime ==
    Called =>
        /\ out.value.slaViolation <=> (out.value.uptimePercentage < 999000)
        /\ out.value.uptimePercentage < 990000 => out.value.serviceCredit = 25
        /\ (out.value.uptimePercentage >= 990000 /\ out.value.uptimePercentage < 999000)
              => out.value.serviceCredit = 10
        /\ out.value.uptimePercentage >= 999000 => out.value.serviceCredit = 0

\* exactly 99.9 with downtime: no violation, no credit
C4_Witness ==
    /\ Called
    /\ out.value.uptimePercentage = 999000
    /\ out.value.totalDowntimeMinutes > 0
    /\ ~out.value.slaViolation
    /\ out.value.serviceCredit = 0

NextQuarter(year, quarter) ==
    IF quarter = 4 THEN <<year + 1, 1>> ELSE <<year, quarter + 1>>

\* C5: for every year and quarter, getQuarterEnd plus one millisecond is
\* getQuarterStart of the following quarter (Q4 is followed by Q1 of the
\* next year).
C5_QuartersTile ==
    out.op = "getQuarterEnd" =>
        PlusMs(out.value, 1) =
            getQuarterStart(NextQuarter(out.year, out.quarter)[1],
                            NextQuarter(out.year, out.quarter)[2])

\* C6: hasDataCoverageForQuarter decides in this order: window start after
\* now, no coverage whatever the incidents; else an incident created within
\* [start, end], coverage; else end >= now - 90 days, coverage; else none.
C6_CoverageDecisionOrder ==
    out.op = "hasDataCoverageForQuarter" =>
        LET created == \E inc \in incidents :
                          inc.created_at >= out.startDate /\ inc.created_at <= out.endDate
            ninetyDaysAgo == out.clock - 90 * 24 * 60 * TicksPerMinute
        IN /\ out.startDate > out.clock
              => (~out.value.hasCoverage /\ out.value.reason = "Future quarter")
           /\ (out.startDate <= out.clock /\ created)
              => (out.value.hasCoverage /\ out.value.reason = "Has incidents")
           /\ (out.startDate <= out.clock /\ ~created /\ out.endDate >= ninetyDaysAgo)
              => out.value.hasCoverage
           /\ (out.startDate <= out.clock /\ ~created /\ out.endDate < ninetyDaysAgo)
              => (/\ ~out.value.hasCoverage
                  /\ out.value.reason = "Historical quarter before tracking began")

\* a future window holding an incident: still no coverage
C6_Witness ==
    /\ out.op = "hasDataCoverageForQuarter"
    /\ out.startDate > out.clock
    /\ \E inc \in incidents :
          inc.created_at >= out.startDate /\ inc.created_at <= out.endDate
    /\ ~out.value.hasCoverage

\* an incident is selected when it names the component and its interval
\* overlaps the half-open window
Selected(inc) ==
    /\ out.componentName \in NamesOf(inc)
    /\ StartOf(inc) < out.endDate
    /\ getIncidentEndTime(inc, out.clock.filter) > out.startDate

\* C7: calculateComponentSLA selects an incident exactly when it affects
\* the component, its start (startedAt, else createdAt) is before the
\* window's end and its end is after the window's start; incidentCount
\* counts the selected incidents.
C7_HalfOpenOverlap ==
    Called =>
        /\ out.relevant = {inc \in incidents : Selected(inc)}
        /\ out.value.incidentCount = Cardinality({inc \in incidents : Selected(inc)})

\* an incident ending exactly at the window's start, or starting exactly
\* at its end, is left out
C7_Witness ==
    /\ Called
    /\ \E inc \in incidents :
          /\ out.componentName \in NamesOf(inc)
          /\ \/ getIncidentEndTime(inc, out.clock.filter) = out.startDate
             \/ StartOf(inc) = out.endDate
          /\ inc \notin out.relevant
    /\ out.value.incidentCount = 0

\* the selected incidents lie inside the window and no two of them overlap
InsideAndDisjoint ==
    /\ \A inc \in out.relevant :
          /\ out.startDate <= StartOf(inc)
          /\ StartOf(inc) <= EndOf(inc)
          /\ EndOf(inc) <= out.endDate
    /\ \A a \in out.relevant, b \in out.relevant :
          a # b => (EndOf(a) <= StartOf(b) \/ EndOf(b) <= StartOf(a))

RECURSIVE SumDurations(_)
SumDurations(incs) ==
    IF incs = {} THEN 0
    ELSE LET inc == CHOOSE i \in incs : TRUE
         IN (EndOf(inc) - StartOf(inc)) * getImpactMultiplier(inc.impact)
            + SumDurations(incs \ {inc})

\* n is x / d rounded to the nearest integer, upwards on a tie
IsRounded(n, x, d) == d * (2 * n - 1) <= 2 * x /\ 2 * x < d * (2 * n + 1)

\* C8: for selected incidents that lie inside the window and do not overlap
\* one another, totalDowntimeMinutes is the sum of (duration in minutes
\* times impact multiplier), rounded to the nearest minute.
C8_RoundedSumOfWeightedDurations ==
    (Called /\ EndsSettled /\ InsideAndDisjoint) =>
        IsRounded(out.value.totalDowntimeMinutes, SumDurations(out.relevant),
                  4 * TicksPerMinute)

\* C9: when no incident of the collection both affects the component and
\* overlaps the window, calculateComponentSLA returns uptimePercentage 100,
\* totalDowntimeMinutes 0, incidentCount 0, no violation and credit 0.
C9_NoRelevantIncidents ==
    (Called /\ \A inc \in incidents : ~Selected(inc)) =>
        /\ out.value.uptimePercentage = 1000000
        /\ out.value.totalDowntimeMinutes = 0
        /\ out.value.incidentCount = 0
        /\ ~out.value.slaViolation
        /\ out.value.serviceCredit = 0

\* a collection that is not empty, with nothing relevant in it
C9_Witness ==
    /\ Called
    /\ incidents # {}
    /\ \A inc \in incidents : ~Selected(inc)
    /\ out.value.uptimePercentage = 1000000
    /\ out.value.incidentCount = 0

\* C10 as stated: uptimePercentage is within 0..100 and
\* totalDowntimeMinutes does not exceed the window's length in minutes.
C10_DowntimeWithinWindow ==
    Called =>
        /\ out.value.uptimePercentage >= 0
        /\ out.value.uptimePercentage <= 1000000
        /\ out.value.totalDowntimeMinutes * TicksPerMinute <= out.endDate - out.startDate

\* C10: uptimePercentage is within 0..100 and totalDowntimeMinutes, being
\* rounded to the nearest minute, exceeds the window's length in minutes by
\* at most half a minute, however many incidents overlap.
C10_DowntimeWithinRoundedWindow ==
    Called =>
        /\ out.value.uptimePercentage >= 0
        /\ out.value.uptimePercentage <= 1000000
        /\ 2 * out.value.totalDowntimeMinutes * TicksPerMinute
              <= 2 * (out.endDate - out.startDate) + TicksPerMinute

\* two incidents covering a whole window that is no whole number of minutes
C10_Witness ==
    /\ Called
    /\ Cardinality(out.relevant) >= 2
    /\ \A inc \in out.relevant : StartOf(inc) <= out.startDate /\ EndOf(inc) >= out.endDate
    /\ out.value.uptimePercentage = 0
    /\ out.value.totalDowntimeMinutes * TicksPerMinute > out.endDate - out.startDate

\* an incident of another period: created outside the window, and its
\* interval does not overlap the window
Unrelated(inc) ==
    /\ (inc.created_at < out.startDate \/ inc.created_at > out.endDate)
    /\ ~(/\ StartOf(inc) < out.endDate
         /\ getIncidentEndTime(inc, out.clock.filter) > out.startDate)

\* C11: incidents that belong to other periods (created outside the window,
\* interval not overlapping it) change no field of calculateComponentSLA's
\* result: the result is the one the collection without them gives.
C11_UnrelatedIncidentsIgnored ==
    Called =>
        \A inc \in incidents :
            Unrelated(inc) =>
                out.value = calculateComponentSLA(incidents \ {inc}, out.componentName,
                                                  out.startDate, out.endDate, out.clock)

\* a collection with one incident of the window and one of another period
C11_Witness ==
    /\ Called
    /\ out.relevant # {}
    /\ out.value.totalDowntimeMinutes > 0
    /\ \E inc \in incidents :
          /\ Unrelated(inc)
          /\ out.componentName \in NamesOf(inc)
          /\ out.value = calculateComponentSLA(incidents \ {inc}, out.componentName,
                                               out.startDate, out.endDate, out.clock)

\* C14: for an incident with no resolved update, getIncidentEndTime returns
\* resolved_at when it is present, else updated_at when the status is
\* resolved, else the current instant.
C14_EndWithoutResolvedUpdate ==
    (out.op = "getIncidentEndTime" /\ ResolvedUpdates(out.incident) = {}) =>
        out.value = IF out.incident.resolved_at # NoDate THEN out.incident.resolved_at
                    ELSE IF out.incident.status = "resolved" THEN out.incident.updated_at
                    ELSE out.clock

\* status resolved, no resolved_at, no resolved update: updated_at
C14_Witness ==
    /\ out.op = "getIncidentEndTime"
    /\ ResolvedUpdates(out.incident) = {}
    /\ out.incident.resolved_at = NoDate
    /\ out.incident.status = "resolved"
    /\ out.value = out.incident.updated_at
    /\ out.value # out.clock

\* C15: for an incident with no resolved_at and several resolved updates,
\* getIncidentEndTime returns the created_at of the first of them in stored
\* order, whatever the timestamps of the later ones.
C15_FirstResolvedUpdateInOrder ==
    (/\ out.op = "getIncidentEndTime"
     /\ out.incident.resolved_at = NoDate
     /\ Cardinality(ResolvedUpdates(out.incident)) >= 2)
    => out.value =
          out.incident.incident_updates[MinOf(ResolvedUpdates(out.incident))].created_at

\* the first resolved update is followed by one with an earlier timestamp
C15_Witness ==
    /\ out.op = "getIncidentEndTime"
    /\ out.incident.resolved_at = NoDate
    /\ \E k \in ResolvedUpdates(out.incident) :
          /\ k > MinOf(ResolvedUpdates(out.incident))
          /\ out.incident.incident_updates[k].created_at < out.value
    /\ out.value =
          out.incident.incident_updates[MinOf(ResolvedUpdates(out.incident))].created_at

\* the result for the k-th component when incident inc is taken out of the
\* collection, at the clock readings of the call that returned out
WithoutIncident(inc, k) ==
    calculateComponentSLA(incidents \ {inc}, out.componentNames[k],
                          out.startDate, out.endDate, out.clocks[k])

\* C12 as stated: in calculateQuarterlySLA every field of a component's
\* result, hasInsufficientData included, is the same with and without an
\* incident that affects only other components.
C12_OtherComponentsIgnored ==
    out.op = "calculateQuarterlySLA" =>
        \A k \in 1..Len(out.componentNames) :
            \A inc \in incidents :
                out.componentNames[k] \notin NamesOf(inc)
                    => out.value[k] = WithoutIncident(inc, k)

\* C12: in calculateQuarterlySLA every field of a component's result other
\* than hasInsufficientData is the same with and without an incident that
\* affects only other components, and hasInsufficientData is the same too
\* unless that incident was created within the quarter.
C12_OtherComponentsIgnoredButCoverage ==
    out.op = "calculateQuarterlySLA" =>
        \A k \in 1..Len(out.componentNames) :
            \A inc \in incidents :
                out.componentNames[k] \notin NamesOf(inc)
                    => /\ [out.value[k] EXCEPT !.hasInsufficientData = FALSE] =
                          [WithoutIncident(inc, k) EXCEPT !.hasInsufficientData = FALSE]
                       /\ (inc.created_at < out.startDate \/ inc.created_at > out.endDate)
                             => out.value[k] = WithoutIncident(inc, k)

\* a component with downtime of its own, next to an incident of the same
\* quarter that affects another component only
C12_Witness ==
    /\ out.op = "calculateQuarterlySLA"
    /\ \E k \in 1..Len(out.componentNames), inc \in incidents :
          /\ out.componentNames[k] \notin NamesOf(inc)
          /\ NamesOf(inc) # {}
          /\ inc.created_at >= out.startDate /\ inc.created_at <= out.endDate
          /\ out.value[k].totalDowntimeMinutes > 0
          /\ out.value[k] = WithoutIncident(inc, k)

OverallCalled == out.op = "calculateOverallSLA"

\* C16: calculateOverallSLA's uptimePercentage is the plain mean of the
\* components' uptimePercentages, rounded to 4 decimals, whatever their
\* incident counts and downtimes, and hasInsufficientData is the OR of the
\* components' flags.
C16_UnweightedMean ==
    OverallCalled =>
        LET n == Len(out.componentSLAs)
            sum == SumField(out.componentSLAs, "uptimePercentage")
        IN /\ n = Len(out.componentNames)
           /\ 2 * n * out.value.uptimePercentage <= 2 * sum + n
           /\ 2 * n * out.value.uptimePercentage >= 2 * sum - n
           /\ out.value.hasInsufficientData <=>
                 \E k \in 1..n : out.componentSLAs[k].hasInsufficientData

\* the components differ in uptime and in incident count, the mean is no
\* multiple of 0.0001, and a component lacks data
C16_Witness ==
    /\ OverallCalled
    /\ \E j \in 1..Len(out.componentSLAs), k \in 1..Len(out.componentSLAs) :
          /\ out.componentSLAs[j].incidentCount > out.componentSLAs[k].incidentCount
          /\ out.componentSLAs[j].uptimePercentage < out.componentSLAs[k].uptimePercentage
    /\ out.value.uptimePercentage * Len(out.componentSLAs)
          # SumField(out.componentSLAs, "uptimePercentage")
    /\ out.value.hasInsufficientData

\* the number of the listed components an incident is counted for: those
\* it names, when its interval overlaps the window
ListedFor(inc) ==
    Cardinality({k \in 1..Len(out.componentNames) :
                    /\ out.componentNames[k] \in NamesOf(inc)
                    /\ StartOf(inc) < out.endDate
                    /\ getIncidentEndTime(inc, out.clocks[k].filter) > out.startDate})

RECURSIVE SumListed(_)
SumListed(incs) ==
    IF incs = {} THEN 0
    ELSE LET inc == CHOOSE i \in incs : TRUE
         IN ListedFor(inc) + SumListed(incs \ {inc})

\* C17: calculateOverallSLA's incidentCount and totalDowntimeMinutes are the
\* sums of the components' incidentCount and rounded totalDowntimeMinutes, so
\* an incident counted for k of the listed components is counted k times.
C17_SumsOverComponents ==
    OverallCalled =>
        /\ out.value.incidentCount = SumField(out.componentSLAs, "incidentCount")
        /\ out.value.totalDowntimeMinutes =
              SumField(out.componentSLAs, "totalDowntimeMinutes")
        /\ out.value.incidentCount = SumListed(incidents)

\* one incident affecting two listed components: counted twice, its 60
\* minutes added twice
C17_Witness ==
    /\ OverallCalled
    /\ Cardinality(incidents) = 1
    /\ \E inc \in incidents : ListedFor(inc) = 2
    /\ out.value.incidentCount = 2
    /\ out.value.totalDowntimeMinutes = 120

QuarterDataCalled == out.op = "calculateQuarterData"

\* C18: calculateQuarterData's worstComponent is the result of slaResults
\* with the minimum uptimePercentage over the 8 results, the first of them in
\* GITHUB_SLA_COMPONENTS order when several tie.
C18_WorstIsFirstMinimum ==
    QuarterDataCalled =>
        LET results == out.value.slaResults
        IN /\ Len(results) = 8
           /\ \A k \in 1..8 : results[k].componentName = GITHUB_SLA_COMPONENTS[k]
           /\ \E k \in 1..8 :
                 /\ out.value.worstComponent = results[k]
                 /\ \A j \in 1..8 :
                       results[j].uptimePercentage >= results[k].uptimePercentage
                 /\ \A j \in 1..(k - 1) :
                       results[j].uptimePercentage > results[k].uptimePercentage

\* two components tie at a minimum below 100: the earlier one is taken
C18_Witness ==
    /\ QuarterDataCalled
    /\ out.value.worstComponent.uptimePercentage < 1000000
    /\ \E k \in 1..8, j \in 1..8 :
          /\ k < j
          /\ out.value.worstComponent = out.value.slaResults[k]
          /\ out.value.slaResults[j].uptimePercentage =
                out.value.worstComponent.uptimePercentage

\* the names of the tracked components
TrackedNames == {GITHUB_SLA_COMPONENTS[k] : k \in 1..Len(GITHUB_SLA_COMPONENTS)}

\* C19: calculateQuarterData's quarterIncidents are exactly the incidents
\* created within [quarterStart, quarterEnd], totalIncidents is their number
\* and trackedIncidents the number of those with a tracked component, so
\* trackedIncidents <= totalIncidents.
C19_QuarterIncidentCounts ==
    QuarterDataCalled =>
        LET quarterStart == ToTicks(getQuarterStart(out.year, out.quarter))
            quarterEnd == ToTicks(getQuarterEnd(out.year, out.quarter))
            created == {inc \in incidents :
                           quarterStart <= inc.created_at /\ inc.created_at <= quarterEnd}
        IN /\ out.value.quarterIncidents = created
           /\ out.value.totalIncidents = Cardinality(created)
           /\ out.value.trackedIncidents =
                 Cardinality({inc \in created : NamesOf(inc) \cap TrackedNames # {}})
           /\ out.value.trackedIncidents <= out.value.totalIncidents

\* an incident created at the quarter's last instant is in, one of an
\* untracked component is counted in the total only
C19_Witness ==
    /\ QuarterDataCalled
    /\ \E inc \in out.value.quarterIncidents :
          inc.created_at = ToTicks(getQuarterEnd(out.year, out.quarter))
    /\ \E inc \in out.value.quarterIncidents : NamesOf(inc) \cap TrackedNames = {}
    /\ out.value.totalIncidents = 2
    /\ out.value.trackedIncidents = 1

\* the entries of a list, and their ids
EntriesOf(list) == {list[k] : k \in 1..Len(list)}

IdsOf(list) == {list[k].id : k \in 1..Len(list)}

\* the versions of an id on either side of a merge
VersionsOf(id) ==
    {v \in EntriesOf(out.existingArchive) \cup EntriesOf(out.newIncidents) : v.id = id}

\* C20: given an archive with unique ids, mergeIncidents returns exactly one
\* entry per id of the archive or the fetched list: no archived id is
\* dropped, no id appears twice, and the version kept is one with the latest
\* updated_at among the archived and the fetched ones, the archived one
\* unless a fetched one is strictly later; so the archive keeps unique ids
\* run after run.
C20_MergeKeepsEveryIdOnce ==
    /\ Cardinality(IdsOf(archive)) = Len(archive)
    /\ out.op = "mergeIncidents" =>
          LET merged == out.value.merged
          IN /\ archive = merged
             /\ IdsOf(merged) = IdsOf(out.existingArchive) \cup IdsOf(out.newIncidents)
             /\ Cardinality(IdsOf(merged)) = Len(merged)
             /\ \A k \in 1..Len(merged) :
                   /\ merged[k] \in VersionsOf(merged[k].id)
                   /\ \A v \in VersionsOf(merged[k].id) : v.updated_at <= merged[k].updated_at
                   /\ \A a \in EntriesOf(out.existingArchive) :
                         (a.id = merged[k].id /\ a.updated_at >= merged[k].updated_at)
                            => merged[k] = a

\* a run that adds an id, keeps an archived id the fetch no longer lists and
\* keeps the archived version of an id fetched again with the same updated_at
C20_Witness ==
    /\ out.op = "mergeIncidents"
    /\ IdsOf(out.newIncidents) \ IdsOf(out.existingArchive) # {}
    /\ IdsOf(out.existingArchive) \ IdsOf(out.newIncidents) # {}
    /\ \E a \in EntriesOf(out.existingArchive), v \in EntriesOf(out.newIncidents) :
          /\ a.id = v.id
          /\ a.updated_at = v.updated_at
          /\ a # v
          /\ a \in EntriesOf(archive)
    /\ Len(archive) = Cardinality(IdsOf(out.existingArchive) \cup IdsOf(out.newIncidents))

\* C21: getImpactMultiplier gives none 0, minor 0.25, major 0.75, critical
\* 1.0, maintenance 0, and 0.5 for every other string; none and maintenance
\* give 0, not the default.
C21_ImpactTable ==
    out.op = "getImpactMultiplier" =>
        out.value = CASE out.impact = "none" -> 0
                      [] out.impact = "minor" -> 1
                      [] out.impact = "major" -> 3
                      [] out.impact = "critical" -> 4
                      [] out.impact = "maintenance" -> 0
                      [] OTHER -> 2

\* the selected incident reaches beyond the window on one side at least
ExtendsBeyond(inc) == StartOf(inc) < out.startDate \/ EndOf(inc) > out.endDate

\* the window that starts where the window of the call ends, if any
Following == {w \in Windows : w.start = out.endDate}

\* C22: an incident that extends beyond the window contributes downtime only
\* for the part of its interval inside the window: alone among the selected
\* incidents it yields its multiplier times its clamped length (the whole
\* window when it covers it), and when it straddles the boundary to the
\* following window the two windows' parts add up to its part of their union.
C22_ClampedToWindow ==
    (Called /\ EndsSettled /\ Cardinality(out.relevant) = 1) =>
        \A inc \in out.relevant :
            ExtendsBeyond(inc) =>
                /\ out.totalWeighted =
                       getImpactMultiplier(inc.impact)
                           * (Clip(EndOf(inc)) - Clip(StartOf(inc)))
                /\ \A w \in Following :
                       relevantIncidents(incidents, out.componentName, w.start,
                                         w.end, out.clock.filter) = {inc}
                       => out.totalWeighted
                            + totalWeightedDowntime(incidents, out.componentName,
                                                    w.start, w.end, out.clock)
                          = getImpactMultiplier(inc.impact)
                              * (Min2(EndOf(inc), w.end)
                                   - Max2(StartOf(inc), out.startDate))

\* a critical incident that starts before the first window and ends after the
\* second costs the first window its whole length
C22_Witness ==
    /\ Called
    /\ EndsSettled
    /\ Ids(out.relevant) = {"cover"}
    /\ \A inc \in out.relevant : StartOf(inc) < out.startDate /\ EndOf(inc) > out.endDate
    /\ Following # {}
    /\ out.totalWeighted = 4 * (out.endDate - out.startDate)
    /\ out.value.uptimePercentage = 0

\* no resolution is recorded: getIncidentEndTime falls through to new Date()
StillOpen(inc) ==
    /\ inc.resolved_at = NoDate
    /\ FindResolvedUpdate(inc.incident_updates) = 0
    /\ inc.status # "resolved"

\* C25: within one calculateComponentSLA evaluation a still-open incident
\* ends at one single instant: the end the overlap filter uses, the end the
\* breakpoints use, the end the midpoint test uses and the now of the
\* coverage classifier are the same value although the clock advances.
C25_OneInstantPerEvaluation ==
    Called =>
        \A inc \in incidents :
            (StillOpen(inc) /\ affectsComponent(inc, out.componentName)) =>
                /\ getIncidentEndTime(inc, out.clock.filter) = out.clock.cov
                /\ getIncidentEndTime(inc, out.clock.points) = out.clock.cov
                /\ getIncidentEndTime(inc, out.clock.mid) = out.clock.cov

\* C26: whenever calculateComponentSLA returns hasInsufficientData = TRUE it
\* also returns incidentCount 0, totalDowntimeMinutes 0 and no violation.
C26_NoDataMeansNoDowntime ==
    (Called /\ out.value.hasInsufficientData) =>
        /\ out.value.incidentCount = 0
        /\ out.value.totalDowntimeMinutes = 0
        /\ ~out.value.slaViolation

\* C27: in calculateOverallSLA's result the verdict agrees with the returned
\* percentage: slaViolation exactly when the returned uptimePercentage is
\* below 99.9, serviceCredit 25 below 99.0, 10 from 99.0 to below 99.9 and 0
\* from 99.9 on.
C27_OverallVerdictFromReturnedUptime ==
    OverallCalled =>
        /\ out.value.slaViolation <=> out.value.uptimePercentage < 999000
        /\ out.value.serviceCredit =
               IF out.value.uptimePercentage < 990000 THEN 25
               ELSE IF out.value.uptimePercentage < 999000 THEN 10
               ELSE 0

\* a later call made at the instant t with a clock that stands still
SteadyClock(t) == [cov |-> t, filter |-> t, points |-> t, mid |-> t]

LaterInstants == {t \in NowPts : t >= out.clock.mid}

\* C28: for a fixed collection, component and window, a later
\* calculateComponentSLA call gives no less weighted downtime and no higher
\* uptimePercentage than an earlier one, and the same when no incident of
\* the component is still open.
C28_DowntimeGrowsWithClock ==
    Called =>
        \A t \in LaterInstants :
            LET later == calculateComponentSLA(incidents, out.componentName,
                                               out.startDate, out.endDate, SteadyClock(t))
                laterWeighted == totalWeightedDowntime(incidents, out.componentName,
                                                       out.startDate, out.endDate,
                                                       SteadyClock(t))
            IN /\ laterWeighted >= out.totalWeighted
               /\ later.uptimePercentage <= out.value.uptimePercentage
               /\ (\A inc \in incidents :
                      affectsComponent(inc, out.componentName) => ~StillOpen(inc))
                     => laterWeighted = out.totalWeighted

\* the weighted downtime of the same call on the collection without inc
WeightedWithout(inc) ==
    totalWeightedDowntime(incidents \ {inc}, out.componentName,
                          out.startDate, out.endDate, out.clock)

\* at every reading of the clock the incident ends no later than it starts
NeverAfterStart(inc) ==
    /\ getIncidentEndTime(inc, out.clock.filter) <= StartOf(inc)
    /\ getIncidentEndTime(inc, out.clock.points) <= StartOf(inc)
    /\ getIncidentEndTime(inc, out.clock.mid) <= StartOf(inc)

\* C29: an incident whose effective end is not after its start contributes
\* zero weighted downtime to every window, whatever its impact: the weighted
\* downtime is the one the collection without it gives.
C29_EmptyIncidentWeighsNothing ==
    Called =>
        \A inc \in incidents :
            NeverAfterStart(inc) => out.totalWeighted = WeightedWithout(inc)

\* C30: a selected incident with impact none or maintenance adds 1 to
\* incidentCount and 0 to the weighted downtime: the downtime of the other
\* incidents is the one the collection without it gives.
C30_ZeroImpactAddsNothing ==
    Called =>
        \A inc \in out.relevant :
            inc.impact \in {"none", "maintenance"} =>
                /\ out.value.incidentCount =
                       calculateComponentSLA(incidents \ {inc}, out.componentName,
                                             out.startDate, out.endDate,
                                             out.clock).incidentCount + 1
                /\ out.totalWeighted = WeightedWithout(inc)

\* C23: the expansion loop of scrapeHistoryPage terminates, also when every
\* click attempt fails with an exception.
C23_ExpansionLoopTerminates == <>(scraper.pc = "done")

\* C24: when the archive file exists and cannot be parsed, main exits with a
\* non-zero code and writes neither incidents-archive.json nor
\* components.json, whether the data came from a valid cache or from a fresh
\* fetch: the file is left as it was.
C24_DamagedArchiveNotOverwritten ==
    (out.op = "main" /\ out.damaged) =>
        /\ out.exitCode = 1
        /\ ARCHIVE_FILE \notin out.written
        /\ COMPONENTS_FILE \notin out.written
        /\ archive = out.existingArchive
        /\ disk.archiveDamaged

\* a fresh fetch was cached and the run stopped at the damaged archive
C24_Witness ==
    /\ out.op = "main"
    /\ out.damaged
    /\ out.source = "fresh"
    /\ out.written = {CACHE_FILE}
    /\ out.exitCode = 1
    /\ Len(archive) > 0

\* the same with the data of a valid cache
C24_WitnessCache ==
    /\ out.op = "main"
    /\ out.damaged
    /\ out.source = "cache"
    /\ out.written = {}
    /\ out.exitCode = 1

====
